---- MODULE Spec2Model ----
(***************************************************************************)
(* State-machine model of packages/core/streams/ai-stream.ts:              *)
(*   upstream bytes -> createEventStreamTransformer -> tokens              *)
(*                  -> createCallbacksTransformer   -> outgoing bytes      *)
(* together with trimStartOfStreamHelper.  Text is a sequence of code      *)
(* points, a byte chunk a sequence of integers 0..255.                     *)
(***************************************************************************)
EXTENDS Integers, Sequences, FiniteSets, TLC

(***************************************************************************)
(* Bounds of the model.                                                    *)
(***************************************************************************)
\* the upstream body arrives in at most MaxChunks byte chunks
MaxChunks == 3
\* a trimmer is called with at most MaxFragments fragments
MaxFragments == 3

(***************************************************************************)
(* Characters and literals of the source.                                  *)
(***************************************************************************)
LF == 10
Colon == 58
Space == 32
\* U+FFFD, what TextDecoder substitutes for a malformed sequence
ReplacementChar == 65533
\* U+FEFF, the byte order mark TextDecoder drops at the start of a decode
BOM == 65279
\* "data"
DataField == <<100, 97, 116, 97>>
\* "[DONE]"
DoneSentinel == <<91, 68, 79, 78, 69, 93>>
\* "data: "
SSEPrefix == <<100, 97, 116, 97, 58, 32>>

(***************************************************************************)
(* Sequence helpers.                                                       *)
(***************************************************************************)
RECURSIVE Flatten(_)
Flatten(ss) == IF ss = <<>> THEN <<>> ELSE Head(ss) \o Flatten(Tail(ss))

Take(s, n) == SubSeq(s, 1, n)
Drop(s, n) == SubSeq(s, n + 1, Len(s))

\* String.prototype.startsWith
StartsWith(s, p) == Len(s) >= Len(p) /\ Take(s, Len(p)) = p

(***************************************************************************)
(* TextDecoder (UTF-8, fatal: false).  DecodeFrom is the decoder's byte    *)
(* handler run over bytes[i..]: cp, seen, needed, lower, upper are its     *)
(* state.  At the end of the input a pending partial character becomes     *)
(* one U+FFFD: decode(chunk) is called without {stream: true}, so every    *)
(* call flushes and starts from the initial decoder state.                 *)
(***************************************************************************)
RECURSIVE DecodeFrom(_, _, _, _, _, _, _)
DecodeFrom(bytes, i, cp, seen, needed, lower, upper) ==
  IF i > Len(bytes)
  THEN IF needed # 0 THEN <<ReplacementChar>> ELSE <<>>
  ELSE LET b == bytes[i] IN
    IF needed = 0
    THEN CASE b <= 127 -> <<b>> \o DecodeFrom(bytes, i + 1, 0, 0, 0, 128, 191)
           [] b >= 194 /\ b <= 223 ->
                DecodeFrom(bytes, i + 1, b % 32, 0, 1, 128, 191)
           [] b >= 224 /\ b <= 239 ->
                DecodeFrom(bytes, i + 1, b % 16, 0, 2,
                           IF b = 224 THEN 160 ELSE 128,
                           IF b = 237 THEN 159 ELSE 191)
           [] b >= 240 /\ b <= 244 ->
                DecodeFrom(bytes, i + 1, b % 8, 0, 3,
                           IF b = 240 THEN 144 ELSE 128,
                           IF b = 244 THEN 143 ELSE 191)
           [] OTHER -> <<ReplacementChar>>
                         \o DecodeFrom(bytes, i + 1, 0, 0, 0, 128, 191)
    ELSE IF b < lower \/ b > upper
         THEN <<ReplacementChar>> \o DecodeFrom(bytes, i, 0, 0, 0, 128, 191)
         ELSE LET cp2 == cp * 64 + (b % 64) IN
              IF seen + 1 = needed
              THEN <<cp2>> \o DecodeFrom(bytes, i + 1, 0, 0, 0, 128, 191)
              ELSE DecodeFrom(bytes, i + 1, cp2, seen + 1, needed, 128, 191)

\* decoder.decode(chunk): one whole, self-contained decode of the chunk
Decode(chunk) ==
  LET out == DecodeFrom(chunk, 1, 0, 0, 0, 128, 191)
  IN IF out # <<>> /\ Head(out) = BOM THEN Tail(out) ELSE out

(***************************************************************************)
(* TextEncoder.encode: code points to UTF-8 bytes.                         *)
(***************************************************************************)
EncodeChar(c) ==
  CASE c < 128 -> <<c>>
    [] c >= 128 /\ c < 2048 -> <<192 + (c \div 64), 128 + (c % 64)>>
    [] c >= 2048 /\ c < 65536 ->
         <<224 + (c \div 4096), 128 + ((c \div 64) % 64), 128 + (c % 64)>>
    [] OTHER -> <<240 + (c \div 262144), 128 + ((c \div 4096) % 64),
                  128 + ((c \div 64) % 64), 128 + (c % 64)>>

Encode(text) == Flatten([k \in 1..Len(text) |-> EncodeChar(text[k])])

(***************************************************************************)
(* State.                                                                  *)
(***************************************************************************)
VARIABLES
  \* inputs of one AIStream(res, customParser, callbacks) call
  events,        \* payloads of the framed events the upstream body carries
  hasBody,       \* res.body is present
  customParser,  \* which extractor the caller supplied
  callbacks,     \* [onStart, onToken, onCompletion]: which callbacks are supplied
  pc,            \* "new" before the AIStream call, "piping" after it
  \* the upstream byte source and the pipe into the parser stage
  src,           \* bytes the upstream has not delivered yet
  srcState,      \* "open", "closed", "errored" or "cancelled"
  chunks,        \* number of chunks delivered so far
  \* createEventStreamTransformer: closure, parser and stream
  isSSE,
  isFirstChunk,
  buffer,        \* eventsource-parser: text of the incomplete last line
  data,          \* eventsource-parser: data lines of the incomplete event
  rd,            \* readable side: [state, queue, closeRequested, readPending]
  wr,            \* writable side: "writable", "closed" or "errored"
  \* createCallbacksTransformer: closure and stream
  fullResponse,
  cbSlot,        \* the token written to the writable side and not finished
  cbPc,          \* "idle", "awaitToken", "awaitCompletion" or "done"
  cbWr,          \* writable side: "writable", "closing", "closed" or "errored"
  out,           \* readable side: [state, queue, closeRequested, readPending]
  active,        \* callback invocations that have not completed yet
  \* history
  decoded,       \* concatenation of the texts decoder.decode returned
  parsed,        \* customParser invocations: <<data, isSSE>>
  emitted,       \* tokens the parser stage enqueued
  doneSeen,      \* a [DONE] event has been parsed
  written,       \* tokens written to the callbacks stage
  calls,         \* callback invocations in order: [cb, arg]
  outBytes,      \* byte chunks the callbacks stage enqueued
  delivered,     \* byte chunks the consumer has read
  cancelled,     \* the consumer cancelled the output
  atCancel,      \* <<outBytes, delivered>> as they were at the cancel
  rejected,      \* the callbacks that have rejected
  \* trimStartOfStreamHelper: closure and history
  start,
  trimIn,
  trimOut

inputVars == <<events, hasBody, customParser, callbacks>>
srcVars == <<src, srcState, chunks>>
parserVars == <<isSSE, isFirstChunk, buffer, data, rd, wr>>
parserHist == <<decoded, parsed, emitted, doneSeen, written>>
cbVars == <<fullResponse, cbSlot, cbPc, cbWr, out, active>>
cbHist == <<calls, outBytes, delivered, cancelled, atCancel, rejected>>
trimVars == <<start, trimIn, trimOut>>
vars == <<inputVars, pc, srcVars, parserVars, parserHist, cbVars, cbHist, trimVars>>

(***************************************************************************)
(* The readable side of a TransformStream (high-water mark 0): a queue, a  *)
(* state, a close request and at most one pending read of its one reader.  *)
(***************************************************************************)
NewReadable ==
  [state |-> "readable", queue |-> <<>>, closeRequested |-> FALSE,
   readPending |-> FALSE]

\* ReadableStreamDefaultControllerCanCloseOrEnqueue
CanEnqueue(r) == r.state = "readable" /\ ~r.closeRequested

\* controller.enqueue(x) where it is allowed: a pending read takes x, else x queues
Enqueued(r, x) ==
  IF r.readPending THEN [r EXCEPT !.readPending = FALSE]
  ELSE [r EXCEPT !.queue = Append(@, x)]

\* what the reader is handed at once by that enqueue
HandedOff(r, x) == IF r.readPending THEN <<x>> ELSE <<>>

\* close of the readable side: at once when nothing is queued, else after the drain
Closed(r) ==
  IF ~CanEnqueue(r) THEN r
  ELSE IF r.queue = <<>>
       THEN [r EXCEPT !.state = "closed", !.readPending = FALSE]
       ELSE [r EXCEPT !.closeRequested = TRUE]

\* variant: an error ends the readable side like a close
ErroredAsClose(r) ==
  IF r.state # "readable" THEN r
  ELSE [r EXCEPT !.state = "closed", !.queue = <<>>, !.readPending = FALSE]

\* error of the readable side: queued elements are dropped; no effect once closed
Errored(r) ==
  IF r.state # "readable" THEN r
  ELSE [r EXCEPT !.state = "errored", !.queue = <<>>, !.readPending = FALSE]

\* readable.cancel(): the stream closes and drops what is queued
Cancelled(r) ==
  IF r.state # "readable" THEN r
  ELSE [r EXCEPT !.state = "closed", !.queue = <<>>, !.readPending = FALSE]

\* a read that finds an element queued
Dequeued(r) ==
  LET rest == Tail(r.queue) IN
  IF rest = <<>> /\ r.closeRequested
  THEN [r EXCEPT !.queue = rest, !.state = "closed"]
  ELSE [r EXCEPT !.queue = rest]

\* variant: the writable side is left as it is
WritableUntouched(w) == w

\* the writable side after TransformStreamErrorWritableAndUnblockWrite
WritableErrored(w) == IF w \in {"writable", "closing"} THEN "errored" ELSE w

(***************************************************************************)
(* The extractors (AIStreamParser) the model's callers supply.             *)
(*   "text": the payload is the token                                      *)
(*   "skip": as "text", but payload "b" is a metadata event: no token      *)
(*   "sse" : strips a leading "data: " when told the stream is SSE         *)
(***************************************************************************)
Void == [kind |-> "void", text |-> <<>>]
Text(t) == [kind |-> "text", text |-> t]

Extract(p, payload, flag) ==
  CASE p = "text" -> Text(payload)
    [] p = "skip" -> IF payload = <<98>> THEN Void ELSE Text(payload)
    [] p = "sse" -> IF flag /\ StartsWith(payload, SSEPrefix)
                    THEN Text(Drop(payload, Len(SSEPrefix)))
                    ELSE Text(payload)

\* variant: every result of the extractor is enqueued
EveryResult(m) == TRUE

\* `if (message)`: neither undefined nor the empty string
Truthy(m) == m.kind = "text" /\ m.text # <<>>

(***************************************************************************)
(* createEventStreamTransformer.  A context c carries, through one         *)
(* transform(chunk) call, the closure (isFirstChunk, isSSE), the           *)
(* eventsource-parser state (buffer, data), both sides of the stream       *)
(* (rd, wr), what the pending read of the next stage was handed (slot),    *)
(* the history, and whether the call threw.                                *)
(***************************************************************************)
\* controller.terminate(): close the readable side, error the writable side
Terminate(c) ==
  [c EXCEPT !.rd = Closed(c.rd), !.wr = WritableErrored(c.wr), !.doneSeen = TRUE]

\* controller.enqueue(message): throws a TypeError once the readable side is
\* closed or has a close requested
ControllerEnqueue(c, message) ==
  IF ~CanEnqueue(c.rd) THEN [c EXCEPT !.threw = TRUE]
  ELSE [c EXCEPT !.rd = Enqueued(c.rd, message),
                 !.slot = c.slot \o HandedOff(c.rd, message),
                 !.emitted = Append(c.emitted, message)]

\* variant: isFirstChunk is never cleared
FirstChunkNeverCleared(c, payload) == c.isFirstChunk

\* isFirstChunk / isSSE after the event with this payload
FirstChunkAfter(c, payload) == FALSE
SSEAfter(c, payload) ==
  IF c.isFirstChunk THEN StartsWith(payload, SSEPrefix) ELSE c.isSSE

\* onParse(event) for an event of type 'event' with event.data = payload
onParse(c, payload) ==
  IF payload = DoneSentinel THEN Terminate(c)
  ELSE LET flag == SSEAfter(c, payload)
           message == Extract(customParser, payload, flag)
           c2 == [c EXCEPT !.isFirstChunk = FirstChunkAfter(c, payload),
                           !.isSSE = flag,
                           !.parsed = Append(c.parsed, <<payload, flag>>)]
       IN IF Truthy(message) THEN ControllerEnqueue(c2, message.text) ELSE c2

\* position of the first ch in s, 0 if there is none
RECURSIVE IndexOf(_, _, _)
IndexOf(s, ch, i) ==
  IF i > Len(s) THEN 0 ELSE IF s[i] = ch THEN i ELSE IndexOf(s, ch, i + 1)

\* eventsource-parser, parseEventStreamLine: an empty line dispatches the
\* event assembled so far; a "data" field adds a line to it; other fields
\* and comments leave the event alone
ParseLine(c, line) ==
  IF line = <<>>
  THEN IF c.data # <<>>
       THEN onParse([c EXCEPT !.data = <<>>], Take(c.data, Len(c.data) - 1))
       ELSE c
  ELSE LET k == IndexOf(line, Colon, 1)
           field == IF k = 0 THEN line ELSE Take(line, k - 1)
           rest == IF k = 0 THEN <<>> ELSE Drop(line, k)
           value == IF rest # <<>> /\ Head(rest) = Space THEN Tail(rest) ELSE rest
       IN IF field = DataField
          THEN [c EXCEPT !.data = c.data \o value \o <<LF>>]
          ELSE c

\* eventsource-parser, feed: every complete line of the buffer is parsed,
\* the incomplete rest stays buffered; an exception of onParse leaves feed.
\* Lines end with LF: the bodies of the model use no CR.
RECURSIVE FeedLines(_)
FeedLines(c) ==
  LET k == IndexOf(c.buffer, LF, 1) IN
  IF k = 0 THEN c
  ELSE LET c2 == ParseLine([c EXCEPT !.buffer = Drop(c.buffer, k)],
                           Take(c.buffer, k - 1))
       IN IF c2.threw THEN c2 ELSE FeedLines(c2)

\* parser.feed(text)
Feed(c, text) == FeedLines([c EXCEPT !.buffer = c.buffer \o text])

\* a transform(chunk) that threw: the stream is errored on both sides
TransformOutcome(c) ==
  IF c.threw
  THEN [c EXCEPT !.rd = Errored(c.rd), !.wr = WritableErrored(c.wr)]
  ELSE c

\* transform(chunk) { parser.feed(decoder.decode(chunk)) }
ParserTransform(c, chunk) == TransformOutcome(Feed(c, Decode(chunk)))

(***************************************************************************)
(* Inputs.                                                                 *)
(***************************************************************************)
\* the wire form of one framed event: "data: <payload>\n\n", UTF-8 encoded
Frame(payload) == Encode(DataField \o <<Colon, Space>> \o payload \o <<LF, LF>>)

\* the upstream body that carries these events
Body(evs) == Flatten([k \in 1..Len(evs) |-> Frame(evs[k])])

\* the event sequences the model feeds: payloads "a", "b", "c", "é"
\* (two bytes in UTF-8), "data: a", "data: " and the sentinel
Scenarios ==
  { [events |-> <<>>, customParser |-> "text"],
    [events |-> <<<<97>>>>, customParser |-> "text"],
    [events |-> <<<<97>>, <<98>>, DoneSentinel>>, customParser |-> "text"],
    [events |-> <<<<97>>, <<98>>, DoneSentinel>>, customParser |-> "skip"],
    [events |-> <<<<233>>, DoneSentinel>>, customParser |-> "text"],
    [events |-> <<<<97>>, <<98>>, DoneSentinel, <<99>>>>, customParser |-> "text"],
    [events |-> <<SSEPrefix \o <<97>>, <<98>>, DoneSentinel>>, customParser |-> "sse"],
    [events |-> <<SSEPrefix, <<98>>, DoneSentinel>>, customParser |-> "sse"] }

\* the callbacks objects the model's callers pass: none, all three, and two
\* partial ones in which each callback is once present and once absent
CallbackSets ==
  { [onStart |-> FALSE, onToken |-> FALSE, onCompletion |-> FALSE],
    [onStart |-> TRUE, onToken |-> TRUE, onCompletion |-> TRUE],
    [onStart |-> TRUE, onToken |-> FALSE, onCompletion |-> TRUE],
    [onStart |-> FALSE, onToken |-> TRUE, onCompletion |-> FALSE] }

(***************************************************************************)
(* Init: the inputs are chosen, AIStream has not been called yet.          *)
(***************************************************************************)
TrimmerInit ==
  /\ start = TRUE
  /\ trimIn = <<>>
  /\ trimOut = <<>>

PipelineInit ==
  /\ pc = "new"
  /\ src = <<>>
  /\ srcState = "open"
  /\ chunks = 0
  /\ isSSE = FALSE
  /\ isFirstChunk = TRUE
  /\ buffer = <<>>
  /\ data = <<>>
  /\ rd = NewReadable
  /\ wr = "writable"
  /\ fullResponse = <<>>
  /\ cbSlot = <<>>
  /\ cbPc = "idle"
  /\ cbWr = "writable"
  /\ out = NewReadable
  /\ active = <<>>
  /\ decoded = <<>>
  /\ parsed = <<>>
  /\ emitted = <<>>
  /\ doneSeen = FALSE
  /\ written = <<>>
  /\ calls = <<>>
  /\ outBytes = <<>>
  /\ delivered = <<>>
  /\ cancelled = FALSE
  /\ atCancel = <<>>
  /\ rejected = {}

Init ==
  /\ \E sc \in Scenarios :
       /\ events = sc.events
       /\ customParser = sc.customParser
       /\ hasBody \in (IF sc.events = <<>> THEN BOOLEAN ELSE {TRUE})
  /\ callbacks \in CallbackSets
  /\ PipelineInit
  /\ TrimmerInit

(***************************************************************************)
(* AIStream(res, customParser, callbacks).                                 *)
(***************************************************************************)
\* variant: no fallback for a missing body, the pipeline is fed a failed source
SourceStateNoFallback(body) == IF body THEN "open" ELSE "errored"

\* res.body || new ReadableStream({start(controller) {controller.close()}})
SourceState(body) == IF body THEN "open" ELSE "closed"

Invocation(cb, arg) == [cb |-> cb, arg |-> arg]

\* start() of the callbacks stage: `if (onStart) await onStart()`
StartInvocations(cbs) ==
  IF cbs.onStart THEN <<Invocation("onStart", <<>>)>> ELSE <<>>

\* constructs both stages (the callbacks stage's start() invokes onStart)
\* and pipes the body through them
AIStream ==
  /\ pc = "new"
  /\ pc' = "piping"
  /\ srcState' = SourceState(hasBody)
  /\ src' = IF hasBody THEN Body(events) ELSE <<>>
  /\ active' = StartInvocations(callbacks)
  /\ calls' = StartInvocations(callbacks)
  /\ UNCHANGED <<inputVars, chunks, parserVars, parserHist, fullResponse,
                 cbSlot, cbPc, cbWr, out, outBytes, delivered, cancelled, atCancel,
                 rejected, trimVars>>

(***************************************************************************)
(* The upstream source and the pipe into the parser stage.                 *)
(***************************************************************************)
Context ==
  [buffer |-> buffer, data |-> data, isFirstChunk |-> isFirstChunk,
   isSSE |-> isSSE, rd |-> rd, wr |-> wr, slot |-> <<>>, parsed |-> parsed,
   emitted |-> emitted, doneSeen |-> doneSeen, threw |-> FALSE]

\* The upstream delivers its next n bytes as one chunk and the parser stage
\* transforms it.  The stage takes a chunk only while its readable side has
\* a read pending (backpressure off); the token a pending read is handed is
\* written on to the callbacks stage.
Transform(n) ==
  /\ pc = "piping"
  /\ srcState = "open"
  /\ wr = "writable"
  /\ rd.readPending
  /\ n \in 1..Len(src)
  /\ chunks + 1 < MaxChunks \/ n = Len(src)
  /\ LET chunk == Take(src, n)
         c == ParserTransform(Context, chunk)
     IN /\ src' = Drop(src, n)
        /\ chunks' = chunks + 1
        /\ decoded' = decoded \o Decode(chunk)
        /\ buffer' = c.buffer
        /\ data' = c.data
        /\ isFirstChunk' = c.isFirstChunk
        /\ isSSE' = c.isSSE
        /\ rd' = c.rd
        /\ wr' = c.wr
        /\ cbSlot' = cbSlot \o c.slot
        /\ written' = written \o c.slot
        /\ parsed' = c.parsed
        /\ emitted' = c.emitted
        /\ doneSeen' = c.doneSeen
  /\ UNCHANGED <<inputVars, pc, srcState, fullResponse, cbPc, cbWr, out,
                 active, cbHist, trimVars>>

\* the upstream has delivered everything and closes
UpstreamClose ==
  /\ pc = "piping"
  /\ srcState = "open"
  /\ src = <<>>
  /\ srcState' = "closed"
  /\ UNCHANGED <<inputVars, pc, src, chunks, parserVars, parserHist, cbVars,
                 cbHist, trimVars>>

\* the upstream fails
UpstreamError ==
  /\ pc = "piping"
  /\ srcState = "open"
  /\ srcState' = "errored"
  /\ UNCHANGED <<inputVars, pc, src, chunks, parserVars, parserHist, cbVars,
                 cbHist, trimVars>>

\* pipeThrough: the source closed, the parser stage's writable side is
\* closed; the stage has no flush, so its readable side closes
Pipe1Close ==
  /\ pc = "piping"
  /\ srcState = "closed"
  /\ wr = "writable"
  /\ wr' = "closed"
  /\ rd' = Closed(rd)
  /\ UNCHANGED <<inputVars, pc, srcVars, isSSE, isFirstChunk, buffer, data,
                 parserHist, cbVars, cbHist, trimVars>>

\* pipeThrough: the source errored, the parser stage is aborted
Pipe1Abort ==
  /\ pc = "piping"
  /\ srcState = "errored"
  /\ wr = "writable"
  /\ wr' = "errored"
  /\ rd' = Errored(rd)
  /\ UNCHANGED <<inputVars, pc, srcVars, isSSE, isFirstChunk, buffer, data,
                 parserHist, cbVars, cbHist, trimVars>>

\* pipeThrough: the parser stage's writable side errored (terminate, or a
\* cancel from downstream), the source is cancelled
Pipe1Cancel ==
  /\ pc = "piping"
  /\ srcState = "open"
  /\ wr = "errored"
  /\ srcState' = "cancelled"
  /\ UNCHANGED <<inputVars, pc, src, chunks, parserVars, parserHist, cbVars,
                 cbHist, trimVars>>

(***************************************************************************)
(* The pipe from the parser stage into the callbacks stage.  The           *)
(* callbacks stage's writable side holds one token at a time (high-water   *)
(* mark 1), so the pipe reads the next token once the last is finished.    *)
(***************************************************************************)
Pipe2Read ==
  /\ pc = "piping"
  /\ cbWr = "writable"
  /\ cbSlot = <<>>
  /\ rd.state = "readable"
  /\ ~rd.readPending
  /\ IF rd.queue # <<>>
     THEN /\ cbSlot' = <<Head(rd.queue)>>
          /\ written' = Append(written, Head(rd.queue))
          /\ rd' = Dequeued(rd)
     ELSE /\ cbSlot' = cbSlot
          /\ written' = written
          /\ rd' = [rd EXCEPT !.readPending = TRUE]
  /\ UNCHANGED <<inputVars, pc, srcVars, isSSE, isFirstChunk, buffer, data, wr,
                 decoded, parsed, emitted, doneSeen, fullResponse, cbPc, cbWr,
                 out, active, cbHist, trimVars>>

\* the parser stage's readable side closed: the callbacks stage is closed
Pipe2Close ==
  /\ pc = "piping"
  /\ rd.state = "closed"
  /\ cbWr = "writable"
  /\ cbSlot = <<>>
  /\ cbWr' = "closing"
  /\ UNCHANGED <<inputVars, pc, srcVars, parserVars, parserHist, fullResponse,
                 cbSlot, cbPc, out, active, cbHist, trimVars>>

\* the parser stage's readable side errored: once the token in hand is
\* finished the callbacks stage is aborted, which errors its output
Pipe2Abort ==
  /\ pc = "piping"
  /\ rd.state = "errored"
  /\ cbWr = "writable"
  /\ cbSlot = <<>>
  /\ cbWr' = "errored"
  /\ out' = Errored(out)
  /\ UNCHANGED <<inputVars, pc, srcVars, parserVars, parserHist, fullResponse,
                 cbSlot, cbPc, active, cbHist, trimVars>>

\* the callbacks stage's writable side errored: the parser stage's readable
\* side is cancelled, which errors the parser stage's writable side
Pipe2Cancel ==
  /\ pc = "piping"
  /\ cbWr = "errored"
  /\ rd.state = "readable"
  /\ rd' = Cancelled(rd)
  /\ wr' = WritableErrored(wr)
  /\ UNCHANGED <<inputVars, pc, srcVars, isSSE, isFirstChunk, buffer, data,
                 parserHist, cbVars, cbHist, trimVars>>

(***************************************************************************)
(* createCallbacksTransformer.                                             *)
(***************************************************************************)
\* variant: start() does not await onStart
StartSettledNoAwait(act) == TRUE

\* variant: the token is enqueued as it is, not encoded
OutputChunkRaw(message) == message

\* the chunk transform enqueues: `encoder.encode(message)`
OutputChunk(message) == Encode(message)

\* start() has resolved: `if (onStart) await onStart()`
StartSettled(act) == \A i \in 1..Len(act) : act[i].cb # "onStart"

\* variant: transform does not await onToken
TransformNeverAwaits(cbs) == FALSE

\* transform awaits the callback: `if (onToken) await onToken(message)`
TransformAwaits(cbs) == cbs.onToken

\* variant: `fullResponse = message`
AccumulateOverwrites(cbs, full, message) ==
  IF cbs.onCompletion THEN message ELSE full

\* `if (onCompletion) fullResponse += message`
Accumulate(cbs, full, message) ==
  IF cbs.onCompletion THEN full \o message ELSE full

\* variant: flush does not await onCompletion
FlushNeverAwaits(cbs) == FALSE

\* flush awaits the callback: `await onCompletion?.(fullResponse)`
FlushAwaits(cbs) == cbs.onCompletion

\* the argument flush passes to onCompletion
CompletionArg(full) == full

\* variant: the rejection of an awaited callback is swallowed
AwaitSwallows(ok) == TRUE

\* `await callback(...)` goes on when the callback fulfilled and throws when
\* it rejected
AwaitCompletes(ok) == ok

\* onStart completes (ok) or rejects: a rejected start() errors the stage
OnStartReturn(ok) ==
  /\ active # <<>>
  /\ Head(active).cb = "onStart"
  /\ active' = Tail(active)
  /\ IF AwaitCompletes(ok)
     THEN UNCHANGED <<cbWr, out, cbPc>>
     ELSE /\ cbWr' = WritableErrored(cbWr)
          /\ out' = Errored(out)
          /\ cbPc' = "done"
  /\ rejected' = IF ok THEN rejected ELSE rejected \cup {"onStart"}
  /\ UNCHANGED <<inputVars, pc, srcVars, parserVars, parserHist, fullResponse,
                 cbSlot, calls, outBytes, delivered, cancelled, atCancel, trimVars>>

\* transform(message, controller), up to its await: runs once start() has
\* resolved and the output has a read pending (backpressure off)
CbTransform ==
  /\ pc = "piping"
  /\ cbWr = "writable"
  /\ cbPc = "idle"
  /\ cbSlot # <<>>
  /\ StartSettled(active)
  /\ out.readPending
  /\ LET message == Head(cbSlot)
         bytes == OutputChunk(message)
     IN /\ out' = Enqueued(out, bytes)
        /\ delivered' = delivered \o HandedOff(out, bytes)
        /\ outBytes' = Append(outBytes, bytes)
        /\ IF callbacks.onToken
           THEN /\ calls' = Append(calls, Invocation("onToken", message))
                /\ active' = Append(active, Invocation("onToken", message))
           ELSE UNCHANGED <<calls, active>>
        /\ IF TransformAwaits(callbacks)
           THEN /\ cbPc' = "awaitToken"
                /\ UNCHANGED <<cbSlot, fullResponse>>
           ELSE /\ cbPc' = "idle"
                /\ cbSlot' = Tail(cbSlot)
                /\ fullResponse' = Accumulate(callbacks, fullResponse, message)
  /\ UNCHANGED <<inputVars, pc, srcVars, parserVars, parserHist, cbWr, cancelled, atCancel,
                 rejected, trimVars>>

\* onToken completes (ok) or rejects; the transform that awaits it goes on
\* or fails, and a failed transform errors the stage
OnTokenReturn(ok) ==
  /\ active # <<>>
  /\ Head(active).cb = "onToken"
  /\ active' = Tail(active)
  /\ IF cbPc = "awaitToken"
     THEN IF AwaitCompletes(ok)
          THEN /\ cbPc' = "idle"
               /\ cbSlot' = Tail(cbSlot)
               /\ fullResponse' = Accumulate(callbacks, fullResponse, Head(cbSlot))
               /\ UNCHANGED <<cbWr, out>>
          ELSE /\ cbPc' = "done"
               /\ cbWr' = WritableErrored(cbWr)
               /\ out' = Errored(out)
               /\ UNCHANGED <<cbSlot, fullResponse>>
     ELSE UNCHANGED <<cbPc, cbSlot, fullResponse, cbWr, out>>
  /\ rejected' = IF ok THEN rejected ELSE rejected \cup {"onToken"}
  /\ UNCHANGED <<inputVars, pc, srcVars, parserVars, parserHist, calls, outBytes,
                 delivered, cancelled, atCancel, trimVars>>

\* flush(), up to its await: runs when the writable side is closed and every
\* token written before has been transformed
CbFlush ==
  /\ pc = "piping"
  /\ cbWr = "closing"
  /\ cbPc = "idle"
  /\ StartSettled(active)
  /\ IF callbacks.onCompletion
     THEN /\ calls' = Append(calls, Invocation("onCompletion", CompletionArg(fullResponse)))
          /\ active' = Append(active, Invocation("onCompletion", CompletionArg(fullResponse)))
     ELSE UNCHANGED <<calls, active>>
  /\ IF FlushAwaits(callbacks)
     THEN /\ cbPc' = "awaitCompletion"
          /\ UNCHANGED <<cbWr, out>>
     ELSE /\ cbPc' = "done"
          /\ cbWr' = "closed"
          /\ out' = Closed(out)
  /\ UNCHANGED <<inputVars, pc, srcVars, parserVars, parserHist, fullResponse,
                 cbSlot, outBytes, delivered, cancelled, atCancel, rejected, trimVars>>

\* onCompletion completes (ok) or rejects; the flush that awaits it closes
\* the output or errors the stage
OnCompletionReturn(ok) ==
  /\ active # <<>>
  /\ Head(active).cb = "onCompletion"
  /\ active' = Tail(active)
  /\ IF cbPc = "awaitCompletion"
     THEN /\ cbPc' = "done"
          /\ IF AwaitCompletes(ok)
             THEN /\ cbWr' = IF cbWr = "closing" THEN "closed" ELSE cbWr
                  /\ out' = Closed(out)
             ELSE /\ cbWr' = WritableErrored(cbWr)
                  /\ out' = Errored(out)
     ELSE UNCHANGED <<cbPc, cbWr, out>>
  /\ rejected' = IF ok THEN rejected ELSE rejected \cup {"onCompletion"}
  /\ UNCHANGED <<inputVars, pc, srcVars, parserVars, parserHist, fullResponse,
                 cbSlot, calls, outBytes, delivered, cancelled, atCancel, trimVars>>

(***************************************************************************)
(* The consumer of the stream AIStream returned.                           *)
(***************************************************************************)
ConsumerRead ==
  /\ pc = "piping"
  /\ ~cancelled
  /\ out.state = "readable"
  /\ ~out.readPending
  /\ IF out.queue # <<>>
     THEN /\ delivered' = Append(delivered, Head(out.queue))
          /\ out' = Dequeued(out)
     ELSE /\ delivered' = delivered
          /\ out' = [out EXCEPT !.readPending = TRUE]
  /\ UNCHANGED <<inputVars, pc, srcVars, parserVars, parserHist, fullResponse,
                 cbSlot, cbPc, cbWr, active, calls, outBytes, cancelled, atCancel,
                 rejected, trimVars>>

\* the consumer cancels: the output closes for it, the callbacks stage's
\* writable side is errored
ConsumerCancel ==
  /\ pc = "piping"
  /\ ~cancelled
  /\ out.state = "readable"
  /\ cancelled' = TRUE
  /\ atCancel' = <<outBytes, delivered>>
  /\ out' = Cancelled(out)
  /\ cbWr' = WritableErrored(cbWr)
  /\ UNCHANGED <<inputVars, pc, srcVars, parserVars, parserHist, fullResponse,
                 cbSlot, cbPc, active, calls, outBytes, delivered, rejected,
                 trimVars>>

(***************************************************************************)
(* trimStartOfStreamHelper.                                                *)
(***************************************************************************)
\* the code points String.prototype.trimStart removes
IsWhiteSpace(ch) ==
  ch \in {9, 10, 11, 12, 13, 32, 160, 5760, 8232, 8233, 8239, 8287, 12288, 65279}
       \cup (8192..8202)

RECURSIVE TrimStart(_)
TrimStart(text) ==
  IF text # <<>> /\ IsWhiteSpace(Head(text)) THEN TrimStart(Tail(text)) ELSE text

\* the value the returned function gives for text when the flag is flag
TrimmedText(flag, text) == IF flag THEN TrimStart(text) ELSE text

\* the flag after that call: `start = trimmedText.length > 0` under `if (start)`
StartAfter(flag, text) == IF flag THEN Len(TrimStart(text)) > 0 ELSE flag

\* the fragments a trimmer is called with:
\* "\n\n hi", " there", " ", "\nhi", "\n bye", ""
Fragments ==
  { <<10, 10, 32, 104, 105>>, <<32, 116, 104, 101, 114, 101>>, <<32>>,
    <<10, 104, 105>>, <<10, 32, 98, 121, 101>>, <<>> }

\* one call of the function trimStartOfStreamHelper() returned
Trim(text) ==
  /\ Len(trimIn) < MaxFragments
  /\ trimIn' = Append(trimIn, text)
  /\ trimOut' = Append(trimOut, TrimmedText(start, text))
  /\ start' = StartAfter(start, text)
  /\ UNCHANGED <<inputVars, pc, srcVars, parserVars, parserHist, cbVars, cbHist>>

(***************************************************************************)
(* Specifications.                                                         *)
(***************************************************************************)
Next ==
  \/ AIStream
  \/ \E n \in 1..Len(src) : Transform(n)
  \/ UpstreamClose
  \/ UpstreamError
  \/ Pipe1Close
  \/ Pipe1Abort
  \/ Pipe1Cancel
  \/ Pipe2Read
  \/ Pipe2Close
  \/ Pipe2Abort
  \/ Pipe2Cancel
  \/ \E ok \in BOOLEAN : OnStartReturn(ok)
  \/ CbTransform
  \/ \E ok \in BOOLEAN : OnTokenReturn(ok)
  \/ CbFlush
  \/ \E ok \in BOOLEAN : OnCompletionReturn(ok)
  \/ ConsumerRead
  \/ ConsumerCancel

Spec == Init /\ [][Next]_vars

\* the trimmer alone: one trimmer, called with any fragments
TrimInit ==
  /\ events = <<>>
  /\ customParser = "text"
  /\ hasBody = FALSE
  /\ callbacks = [onStart |-> FALSE, onToken |-> FALSE, onCompletion |-> FALSE]
  /\ PipelineInit
  /\ TrimmerInit

TrimNext == \E text \in Fragments : Trim(text)

TrimSpec == TrimInit /\ [][TrimNext]_vars

(***************************************************************************)
(* Vocabulary of the properties.                                           *)
(***************************************************************************)
RECURSIVE FirstIndex(_, _, _)
FirstIndex(s, x, i) ==
  IF i > Len(s) THEN 0 ELSE IF s[i] = x THEN i ELSE FirstIndex(s, x, i + 1)

\* the events in front of the first sentinel
BeforeSentinel(evs) ==
  LET k == FirstIndex(evs, DoneSentinel, 1)
  IN IF k = 0 THEN evs ELSE Take(evs, k - 1)

\* the tokens the extractor derives from the events in front of the sentinel,
\* the framing flag taken from the first event
ExpectedTokens(evs) ==
  LET pre == BeforeSentinel(evs)
      flag == pre # <<>> /\ StartsWith(pre[1], SSEPrefix)
      ms == [k \in 1..Len(pre) |-> Extract(customParser, pre[k], flag)]
      kept == SelectSeq(ms, Truthy)
  IN [k \in 1..Len(kept) |-> kept[k].text]

EncodeAll(ts) == [k \in 1..Len(ts) |-> Encode(ts[k])]

\* the events are N payloads followed by one sentinel
SentinelLast(evs) == evs # <<>> /\ FirstIndex(evs, DoneSentinel, 1) = Len(evs)

\* the output closed for the consumer, and not because the consumer cancelled
ClosedNormally == out.state = "closed" /\ ~cancelled

IsPrefix(s, t) == Len(s) <= Len(t) /\ s = Take(t, Len(s))

\* the invocations of one callback, in order, and their arguments
CallsOf(cb) == SelectSeq(calls, LAMBDA c : c.cb = cb)
ArgsOf(cb) == [k \in 1..Len(CallsOf(cb)) |-> CallsOf(cb)[k].arg]
Running(cb) == \E i \in 1..Len(active) : active[i].cb = cb

\* what the parser stage emits when the whole body arrives as one chunk
WholeBodyTokens ==
  ParserTransform([buffer |-> <<>>, data |-> <<>>, isFirstChunk |-> TRUE,
                   isSSE |-> FALSE, rd |-> NewReadable, wr |-> "writable",
                   slot |-> <<>>, parsed |-> <<>>, emitted |-> <<>>,
                   doneSeen |-> FALSE, threw |-> FALSE],
                  Body(events)).emitted

(***************************************************************************)
(* Properties.                                                             *)
(***************************************************************************)
\* C1: when the body is N framed events followed by a [DONE] event, then
\* whatever the chunking and the extractor, an output that has closed has
\* delivered exactly the encoded tokens the extractor derives from the N
\* events, in event order.  (Fails: a chunk boundary inside a multi-byte
\* character corrupts the token, see C2.)
C1_ExactTokensThenClose ==
  (SentinelLast(events) /\ ClosedNormally)
    => delivered = EncodeAll(ExpectedTokens(events))

\* C2: once every chunk has been decoded, the text decoded chunk by chunk
\* is the text decoded from the concatenation of the chunks: a character
\* split over two chunks is carried over, not corrupted.
C2_DecodeCarriesPartialCharacter ==
  (pc = "piping" /\ hasBody /\ src = <<>>) => decoded = Decode(Body(events))

\* C3: every chunking of a body makes the parser stage emit the tokens it
\* emits for the body delivered as one chunk.
C3_ChunkingInvariant ==
  (pc = "piping" /\ hasBody /\ (src = <<>> \/ doneSeen))
    => emitted = WholeBodyTokens

\* C4: once a [DONE] event has been parsed, no token of a later event is
\* emitted and the parser stage's output ends in a normal close, never in
\* an error.
C4_SentinelEndsOutputNormally ==
  doneSeen => /\ Len(emitted) <= Len(BeforeSentinel(events))
              /\ rd.state # "errored"

\* C5: with onStart supplied, onStart is invoked exactly once, and no output
\* byte chunk is enqueued before that invocation has completed.
C5_OnStartOnceBeforeOutput ==
  (pc = "piping" /\ callbacks.onStart)
    => /\ Len(CallsOf("onStart")) = 1
       /\ outBytes # <<>> => ~Running("onStart") /\ "onStart" \notin rejected

C5_Witness ==
  callbacks.onStart /\ Len(outBytes) >= 2 /\ ~Running("onStart")

\* C6: when the stream has completed normally, onToken (if supplied) was
\* invoked once per output chunk, with the token that chunk encodes, and
\* onCompletion (if supplied) was passed the concatenation of the emitted
\* token texts in emission order.
C6_TokenCountAndCompletionText ==
  ClosedNormally
    => /\ callbacks.onToken => EncodeAll(ArgsOf("onToken")) = outBytes
       /\ callbacks.onCompletion =>
            /\ Len(CallsOf("onCompletion")) = 1
            /\ Encode(ArgsOf("onCompletion")[1]) = Flatten(outBytes)

C6_Witness ==
  /\ ClosedNormally
  /\ callbacks.onToken /\ callbacks.onCompletion
  /\ Len(outBytes) >= 2

C8_CallbacksTotallyOrdered ==
  /\ Len(active) <= 1
  /\ \A i, j \in 1..Len(calls) :
       i < j => calls[j].cb # "onStart" /\ calls[i].cb # "onCompletion"
  /\ callbacks.onToken => IsPrefix(ArgsOf("onToken"), emitted)

C8_Witness ==
  /\ Len(CallsOf("onStart")) = 1
  /\ Len(CallsOf("onToken")) = 2
  /\ Len(CallsOf("onCompletion")) = 1
  /\ active = <<>>

\* C9: without a response body no output chunk is produced and onToken is
\* never invoked; onStart (if supplied) is invoked once; the output errors
\* only when a callback rejected, and where the run stops without one the
\* output has closed, with onCompletion (if supplied) invoked once with the
\* empty string.
C9_MissingBodyIsEmptyStream ==
  (pc = "piping" /\ ~hasBody)
    => /\ outBytes = <<>> /\ delivered = <<>>
       /\ CallsOf("onToken") = <<>>
       /\ Len(CallsOf("onStart")) = (IF callbacks.onStart THEN 1 ELSE 0)
       /\ out.state = "errored" => rejected # {}
       /\ (~ENABLED Next /\ rejected = {}) => out.state = "closed"
       /\ (ClosedNormally /\ callbacks.onCompletion)
            => ArgsOf("onCompletion") = << <<>> >>

C9_Witness ==
  /\ ~hasBody /\ ClosedNormally
  /\ callbacks.onStart /\ callbacks.onCompletion
  /\ Len(calls) = 2 /\ active = <<>>

\* C10: once a fragment has yielded non-empty trimmed content, the at-start
\* flag is cleared for good and every later fragment is returned
\* unmodified, e.g. "\n\n hi", " there" give "hi", " there".
C10_TrimmingStopsAfterContent ==
  /\ (\E j \in 1..Len(trimOut) : trimOut[j] # <<>>) => ~start
  /\ \A k \in 1..Len(trimIn) :
       (\E j \in 1..(k - 1) : trimOut[j] # <<>>) => trimOut[k] = trimIn[k]

\* C11: while every fragment seen so far was whitespace-only, each of them
\* is returned as the empty string and trimming stays active: the next
\* fragment has its leading whitespace stripped, e.g. " ", "\nhi" give
\* "", "hi".
C11_TrimmingStaysActiveOnWhitespace ==
  /\ (\A j \in 1..Len(trimIn) : TrimStart(trimIn[j]) = <<>>) => start
  /\ \A k \in 1..Len(trimIn) :
       (\A j \in 1..(k - 1) : TrimStart(trimIn[j]) = <<>>)
         => trimOut[k] = TrimStart(trimIn[k])

\* C12: the framing flag is decided once, from the payload of the first
\* event handed to the extractor; every extractor invocation of the session
\* receives that value, whatever the later payloads, and the closure keeps it.
C12_FramingFlagDecidedOnce ==
  parsed # <<>>
    => /\ \A k \in 1..Len(parsed) :
            parsed[k][2] = StartsWith(parsed[1][1], SSEPrefix)
       /\ isSSE = StartsWith(parsed[1][1], SSEPrefix)
       /\ ~isFirstChunk

\* a later payload would have decided the flag differently
C12_Witness ==
  /\ Len(parsed) >= 2
  /\ parsed[1][2] /\ parsed[2][2]
  /\ ~StartsWith(parsed[2][1], SSEPrefix)

\* C13: the k-th output chunk of the callbacks stage is the encoding of the
\* k-th token written to it: nothing is dropped, merged, split or reordered
\* (at most the token in hand is not output yet, and none is missing once
\* the output has closed); without onCompletion the accumulator stays
\* empty, and without callbacks nothing is invoked.
C13_OutputIsReencodedInput ==
  /\ Len(outBytes) <= Len(written)
  /\ Len(written) <= Len(outBytes) + 1
  /\ outBytes = EncodeAll(Take(written, Len(outBytes)))
  /\ ClosedNormally => outBytes = EncodeAll(written)
  /\ ~callbacks.onCompletion => fullResponse = <<>>
  /\ (~callbacks.onStart /\ ~callbacks.onToken /\ ~callbacks.onCompletion)
       => calls = <<>>

C13_Witness ==
  /\ ~callbacks.onStart /\ ~callbacks.onToken /\ ~callbacks.onCompletion
  /\ ClosedNormally
  /\ Len(outBytes) >= 2
  /\ delivered = outBytes

\* C14 as claimed: when the upstream has errored, or has closed without a
\* sentinel, the pipeline does not complete normally and onCompletion is
\* never invoked.
C14_UpstreamEndWithoutSentinelFails ==
  (hasBody /\ events # <<>> /\ ~doneSeen /\ srcState \in {"errored", "closed"})
    => CallsOf("onCompletion") = <<>> /\ ~ClosedNormally

\* C14 as amended: when the upstream errors before a sentinel was parsed,
\* onCompletion is never invoked, the output never closes normally, the run
\* stops with the output errored (unless the consumer cancelled), and every
\* byte chunk enqueued before has been delivered.  An upstream that closes
\* without a sentinel is a normal completion: the output errors only when a
\* callback rejected and otherwise the run stops with the output closed.
C14_UpstreamErrorFailsCloseCompletes ==
  /\ (srcState = "errored" /\ ~doneSeen)
       => /\ CallsOf("onCompletion") = <<>>
          /\ ~ClosedNormally
          /\ delivered = outBytes
          /\ (~ENABLED Next /\ ~cancelled) => out.state = "errored"
  /\ (hasBody /\ srcState = "closed" /\ ~doneSeen)
       => /\ out.state = "errored" => rejected # {}
          /\ (~ENABLED Next /\ ~cancelled /\ rejected = {}) => ClosedNormally
          /\ (ClosedNormally /\ callbacks.onCompletion)
               => Len(CallsOf("onCompletion")) = 1

\* the upstream failed after a token was delivered, and the output errored
C14_Witness ==
  /\ srcState = "errored" /\ ~doneSeen
  /\ callbacks.onCompletion
  /\ delivered # <<>>
  /\ out.state = "errored" /\ rejected = {}

\* C15: once a callback has rejected, no callback is running or invoked any
\* more, no further token is processed by the callbacks stage (no output
\* chunk, no delivery, no accumulation), and the output is errored for a
\* consumer that has not cancelled; after a rejected onStart no byte chunk
\* was ever forwarded.
C15_CallbackFailureStopsPipeline ==
  /\ [](rejected # {}
          => /\ active = <<>>
             /\ ~cancelled => out.state = "errored"
             /\ "onStart" \in rejected => outBytes = <<>> /\ delivered = <<>>)
  /\ [][rejected # {}
          => /\ calls' = calls
             /\ outBytes' = outBytes
             /\ delivered' = delivered
             /\ fullResponse' = fullResponse]_vars

\* onToken rejected while a later token was waiting in the parser stage
C15_Witness ==
  /\ "onToken" \in rejected
  /\ callbacks.onCompletion
  /\ Len(emitted) > Len(outBytes)
  /\ out.state = "errored"
  /\ rd.state = "closed" /\ srcState = "cancelled"

\* C16: whenever onToken has been invoked for the k-th token, the k-th output
\* chunk, the encoding of that token, is already enqueued; the accumulator
\* holds exactly the tokens whose onToken has completed, so never the token
\* whose onToken is still running or has rejected.
C16_EnqueueBeforeOnTokenAccumulateAfter ==
  callbacks.onToken
    => LET args == ArgsOf("onToken")
           pending == IF Running("onToken") \/ "onToken" \in rejected THEN 1 ELSE 0
       IN /\ Len(outBytes) = Len(args)
          /\ \A k \in 1..Len(args) : outBytes[k] = Encode(args[k])
          /\ Running("onToken") => cbSlot # <<>> /\ args[Len(args)] = Head(cbSlot)
          /\ callbacks.onCompletion
               => fullResponse = Flatten(Take(args, Len(args) - pending))

\* the bytes of the second token have reached the consumer while onToken is
\* still running for it and the accumulator holds the first token only
C16_Witness ==
  /\ callbacks.onToken /\ callbacks.onCompletion
  /\ Running("onToken")
  /\ Len(CallsOf("onToken")) = 2
  /\ Len(delivered) = 2
  /\ delivered[2] = Encode(Head(cbSlot))
  /\ fullResponse = ArgsOf("onToken")[1]

\* C17: backpressure is honoured by both stages: the readable sides have
\* high-water mark 0, so a stage enqueues a token only into a pending read
\* and no token ever waits in a stage's output queue, however many events
\* one chunk carries.
C17_NoTokenQueuedWithoutRead ==
  /\ rd.queue = <<>>
  /\ out.queue = <<>>

\* Transform has a chunk it can take (the guard of Transform)
TransformEnabled ==
  /\ pc = "piping"
  /\ srcState = "open"
  /\ wr = "writable"
  /\ rd.readPending
  /\ src # <<>>

\* the pipeline has come to rest: no step is possible
Quiescent == ~TransformEnabled /\ ~ENABLED Next

C19_NoExtractionAfterSentinel ==
  Len(parsed) <= Len(BeforeSentinel(events))

\* C20: an event for which the extractor returns nothing or the empty string
\* yields no token: the parser stage's tokens are the non-empty results, in
\* order, and only they become output chunks, onToken arguments and parts of
\* the accumulator.  Such an event still takes the framing decision when it
\* is the first one: every later event sees the flag decided on it.
C20_EmptyResultYieldsNothing ==
  LET results == [k \in 1..Len(parsed) |->
                    Extract(customParser, parsed[k][1], parsed[k][2])]
      kept == SelectSeq(results, LAMBDA m : m.kind = "text" /\ m.text # <<>>)
      tokens == [k \in 1..Len(kept) |-> kept[k].text]
  IN /\ IsPrefix(emitted, tokens)
     /\ \A k \in 1..Len(emitted) : emitted[k] # <<>>
     /\ IsPrefix(outBytes, EncodeAll(emitted))
     /\ IsPrefix(ArgsOf("onToken"), emitted)
     /\ \E n \in 0..Len(emitted) : fullResponse = Flatten(Take(emitted, n))
     /\ (parsed # <<>> /\ (results[1].kind = "void" \/ results[1].text = <<>>))
          => /\ ~isFirstChunk
             /\ isSSE = StartsWith(parsed[1][1], SSEPrefix)
             /\ \A k \in 1..Len(parsed) : parsed[k][2] = isSSE

\* the first event gave the empty string and set the flag, the second gave
\* the only token, and the output closed
C20_Witness ==
  /\ Len(parsed) = 2
  /\ Extract(customParser, parsed[1][1], parsed[1][2]).text = <<>>
  /\ parsed[2][2] /\ ~StartsWith(parsed[2][1], SSEPrefix)
  /\ Len(emitted) = 1
  /\ callbacks.onToken /\ callbacks.onCompletion
  /\ ArgsOf("onToken") = emitted
  /\ fullResponse = emitted[1]
  /\ delivered = EncodeAll(emitted)
  /\ ClosedNormally

====
